---- MODULE Spec2Model ----
(***************************************************************************)
(* The CORS proxy of services/cors-proxy (src/unnamed/part_001, second     *)
(* module, lines 68-254): a per-request handler that validates the         *)
(* Target-URL header, resolves the host, and forwards the request.         *)
(*                                                                         *)
(* JavaScript strings that the code parses (URLs, hostnames, addresses,    *)
(* header payloads) are sequences of one-character strings; a character    *)
(* outside ASCII is written "U+XXXX".  Message literals that the code      *)
(* only sends are plain strings.                                           *)
(***************************************************************************)
EXTENDS Integers, Sequences, FiniteSets, TLC

(***************************************************************************)
(* Characters and strings                                                  *)
(***************************************************************************)

\* The printable ASCII characters, 0x20 .. 0x7e, in code point order (the grave
\* accent, which a TLA+ string cannot hold, is written U+0060).
ASCII ==
  << " ", "!", "\"", "#", "$", "%", "&", "'", "(", ")", "*", "+", ",", "-", ".", "/",
     "0", "1", "2", "3", "4", "5", "6", "7", "8", "9", ":", ";", "<", "=", ">", "?",
     "@", "A", "B", "C", "D", "E", "F", "G", "H", "I", "J", "K", "L", "M", "N", "O",
     "P", "Q", "R", "S", "T", "U", "V", "W", "X", "Y", "Z", "[", "\\", "]", "^", "_",
     "U+0060", "a", "b", "c", "d", "e", "f", "g", "h", "i", "j", "k", "l", "m", "n", "o",
     "p", "q", "r", "s", "t", "u", "v", "w", "x", "y", "z", "{", "|", "}", "~" >>

FirstPrintable == 32

AsciiSet == { ASCII[i] : i \in 1..Len(ASCII) }

IsAscii(c) == c \in AsciiSet

\* The characters outside ASCII that the inputs of the model use.
NonAscii ==
  { <<"U+0430", 1072>>,      \* CYRILLIC SMALL LETTER A
    <<"U+00FC", 252>>,       \* LATIN SMALL LETTER U WITH DIAERESIS
    <<"U+FF41", 65345>>,     \* FULLWIDTH LATIN SMALL LETTER A
    <<"U+3002", 12290>> }    \* IDEOGRAPHIC FULL STOP

CodePoint(c) ==
  IF IsAscii(c)
    THEN (CHOOSE i \in 1..Len(ASCII) : ASCII[i] = c) + FirstPrintable - 1
    ELSE (CHOOSE p \in NonAscii : p[1] = c)[2]

CharOf(n) == ASCII[n - FirstPrintable + 1]

Digits == { "0", "1", "2", "3", "4", "5", "6", "7", "8", "9" }

UpperCase == { CharOf(n) : n \in 65..90 }

\* String.prototype.toLowerCase, on the characters of the model.
LowerChar(c) == IF c \in UpperCase THEN CharOf(CodePoint(c) + 32) ELSE c

RECURSIVE toLowerCase(_)
toLowerCase(s) ==
  IF s = <<>> THEN <<>> ELSE <<LowerChar(Head(s))>> \o toLowerCase(Tail(s))

\* String.prototype.startsWith
startsWith(s, p) == Len(s) >= Len(p) /\ SubSeq(s, 1, Len(p)) = p

\* String.prototype.includes
includes(s, p) ==
  \E i \in 1..(Len(s) - Len(p) + 1) : SubSeq(s, i, i + Len(p) - 1) = p

\* The index of the first character of s that is in set cs, or 0.
IndexOfAny(s, cs) ==
  IF \E i \in 1..Len(s) : s[i] \in cs
    THEN CHOOSE i \in 1..Len(s) : s[i] \in cs /\ \A j \in 1..(i - 1) : s[j] \notin cs
    ELSE 0

\* The index of the last character of s that is in set cs, or 0.
LastIndexOfAny(s, cs) ==
  IF \E i \in 1..Len(s) : s[i] \in cs
    THEN CHOOSE i \in 1..Len(s) : s[i] \in cs /\ \A j \in (i + 1)..Len(s) : s[j] \notin cs
    ELSE 0

\* String.prototype.split on a set of separator characters.
RECURSIVE Split(_, _)
Split(s, cs) ==
  LET i == IndexOfAny(s, cs)
  IN  IF i = 0 THEN <<s>>
      ELSE <<SubSeq(s, 1, i - 1)>> \o Split(SubSeq(s, i + 1, Len(s)), cs)

\* Array.prototype.join
RECURSIVE Join(_, _)
Join(parts, sep) ==
  IF parts = <<>> THEN <<>>
  ELSE IF Len(parts) = 1 THEN parts[1]
  ELSE parts[1] \o sep \o Join(Tail(parts), sep)

\* s.replace(/\.+$/, ''): the trailing run of dots removed.
RECURSIVE StripTrailingDots(_)
StripTrailingDots(s) ==
  IF s /= <<>> /\ s[Len(s)] = "."
    THEN StripTrailingDots(SubSeq(s, 1, Len(s) - 1))
    ELSE s

(***************************************************************************)
(* punycode.toASCII (RFC 3492, as punycode.js implements it)               *)
(***************************************************************************)

PunyBase == 36
PunyTMin == 1
PunyTMax == 26
PunySkew == 38
PunyDamp == 700
PunyInitialBias == 72
PunyInitialN == 128

\* digitToBasic: 0..25 are a..z, 26..35 are 0..9.
digitToBasic(d) == IF d < 26 THEN CharOf(97 + d) ELSE CharOf(22 + d)

RECURSIVE AdaptLoop(_, _)
AdaptLoop(delta, k) ==
  IF delta > ((PunyBase - PunyTMin) * PunyTMax) \div 2
    THEN AdaptLoop(delta \div (PunyBase - PunyTMin), k + PunyBase)
    ELSE k + ((PunyBase - PunyTMin + 1) * delta) \div (delta + PunySkew)

adapt(delta, numPoints, firstTime) ==
  LET d1 == IF firstTime THEN delta \div PunyDamp ELSE delta \div 2
  IN  AdaptLoop(d1 + (d1 \div numPoints), 0)

\* The generalized variable-length integer for delta q.
RECURSIVE EncodeDelta(_, _, _)
EncodeDelta(q, k, bias) ==
  LET t == IF k <= bias THEN PunyTMin
           ELSE IF k >= bias + PunyTMax THEN PunyTMax ELSE k - bias
  IN  IF q < t THEN <<digitToBasic(q)>>
      ELSE <<digitToBasic(t + ((q - t) % (PunyBase - t)))>>
             \o EncodeDelta((q - t) \div (PunyBase - t), k + PunyBase, bias)

\* The inner for-loop of encode over the code points of the input.
RECURSIVE EncodePass(_, _, _, _)
EncodePass(input, i, n, st) ==
  IF i > Len(input) THEN st
  ELSE LET c  == CodePoint(input[i])
           s1 == IF c < n THEN [st EXCEPT !.delta = @ + 1] ELSE st
           s2 == IF c = n
                   THEN [s1 EXCEPT
                           !.output = @ \o EncodeDelta(s1.delta, PunyBase, s1.bias),
                           !.bias = adapt(s1.delta, s1.h + 1, s1.h = s1.b),
                           !.delta = 0,
                           !.h = @ + 1]
                   ELSE s1
       IN  EncodePass(input, i + 1, n, s2)

\* The main while-loop of encode.
RECURSIVE EncodeLoop(_, _, _)
EncodeLoop(input, n, st) ==
  IF st.h >= Len(input) THEN st.output
  ELSE LET m  == CHOOSE x \in { CodePoint(input[i]) : i \in 1..Len(input) } :
                   /\ x >= n
                   /\ \A i \in 1..Len(input) :
                        CodePoint(input[i]) >= n => x <= CodePoint(input[i])
           s1 == [st EXCEPT !.delta = @ + (m - n) * (st.h + 1)]
           s2 == EncodePass(input, 1, m, s1)
       IN  EncodeLoop(input, m + 1, [s2 EXCEPT !.delta = @ + 1])

\* punycode.encode
encode(input) ==
  LET basic == SelectSeq(input, IsAscii)
      out0  == IF basic /= <<>> THEN basic \o <<"-">> ELSE basic
  IN  EncodeLoop(input, PunyInitialN,
                 [output |-> out0, delta |-> 0, bias |-> PunyInitialBias,
                  h |-> Len(basic), b |-> Len(basic)])

XnPrefix == <<"x", "n", "-", "-">>

toASCIILabel(label) ==
  IF \A i \in 1..Len(label) : IsAscii(label[i]) THEN label
  ELSE XnPrefix \o encode(label)

RECURSIVE MapLabels(_)
MapLabels(labels) ==
  IF labels = <<>> THEN <<>>
  ELSE <<toASCIILabel(Head(labels))>> \o MapLabels(Tail(labels))

\* punycode.toASCII: every label with a non-ASCII character becomes xn--<encode>.
\* The separators are the dots of RFC 3490 (. and U+3002 among the model's characters).
toASCII(domain) ==
  Join(MapLabels(Split(domain, { ".", "U+3002" })), <<".">>)

(***************************************************************************)
(* The allow-list                                                          *)
(***************************************************************************)

api_example_com ==
  <<"a", "p", "i", ".", "e", "x", "a", "m", "p", "l", "e", ".", "c", "o", "m">>

service_example_net ==
  <<"s", "e", "r", "v", "i", "c", "e", ".", "e", "x", "a", "m", "p", "l", "e", ".",
    "n", "e", "t">>

RAW_ALLOWED_HOSTNAMES == << api_example_com, service_example_net >>

\* h => punycode.toASCII(h.toLowerCase().replace(/\.+$/, ''))
Canonicalize(h) == toASCII(StripTrailingDots(toLowerCase(h)))

ALLOWED_HOSTNAMES ==
  [ i \in 1..Len(RAW_ALLOWED_HOSTNAMES) |-> Canonicalize(RAW_ALLOWED_HOSTNAMES[i]) ]

(***************************************************************************)
(* new URL(input): the WHATWG URL parser with no base URL                  *)
(*                                                                         *)
(* Modelled on the inputs of this module: IP-literal hosts are kept as     *)
(* written (no IPv4 number parsing), and the percent-encode sets, which    *)
(* leave every character of these inputs alone, are not applied.           *)
(***************************************************************************)

Str_https == <<"h", "t", "t", "p", "s">>
Str_http  == <<"h", "t", "t", "p">>
Str_ftp   == <<"f", "t", "p">>
Str_ws    == <<"w", "s">>
Str_wss   == <<"w", "s", "s">>
Str_null  == <<"n", "u", "l", "l">>

\* The special schemes and their default ports.
SpecialSchemes ==
  { <<Str_https, 443>>, <<Str_http, 80>>, <<Str_ftp, 21>>, <<Str_ws, 80>>, <<Str_wss, 443>> }

IsSpecial(scheme) == \E p \in SpecialSchemes : p[1] = scheme

DefaultPort(scheme) == (CHOOSE p \in SpecialSchemes : p[1] = scheme)[2]

Letters == UpperCase \cup { CharOf(n) : n \in 97..122 }

HexDigits == Digits \cup { "a", "b", "c", "d", "e", "f", "A", "B", "C", "D", "E", "F" }

HexVal(c) ==
  IF c \in Digits THEN CodePoint(c) - 48
  ELSE IF c \in UpperCase THEN CodePoint(c) - 55 ELSE CodePoint(c) - 87

\* A string of decimal digits as a number.
RECURSIVE ParseDec(_)
ParseDec(s) ==
  IF s = <<>> THEN 0
  ELSE 10 * ParseDec(SubSeq(s, 1, Len(s) - 1)) + (CodePoint(s[Len(s)]) - 48)

\* A number as its shortest string of decimal digits.
RECURSIVE ToDec(_)
ToDec(n) ==
  IF n < 10 THEN <<CharOf(48 + n)>> ELSE ToDec(n \div 10) \o <<CharOf(48 + (n % 10))>>

AllIn(s, cs) == \A i \in 1..Len(s) : s[i] \in cs

RECURSIVE DropLeading(_, _)
DropLeading(s, cs) ==
  IF s /= <<>> /\ Head(s) \in cs THEN DropLeading(Tail(s), cs) ELSE s

From(s, i) == SubSeq(s, i, Len(s))

Before(s, i) == SubSeq(s, 1, i - 1)

\* Percent-decoding as the host parser does it: a % that two hex digits do not
\* follow is left as it is.
RECURSIVE PercentDecode(_)
PercentDecode(s) ==
  IF s = <<>> THEN <<>>
  ELSE IF /\ Head(s) = "%" /\ Len(s) >= 3 /\ s[2] \in HexDigits /\ s[3] \in HexDigits
          /\ 16 * HexVal(s[2]) + HexVal(s[3]) \in FirstPrintable..126
    THEN <<CharOf(16 * HexVal(s[2]) + HexVal(s[3]))>> \o PercentDecode(From(s, 4))
    ELSE <<Head(s)>> \o PercentDecode(Tail(s))

\* The UTS #46 mapping of one character: case folding, the fullwidth forms and
\* the ideographic full stop.
UTS46Map(c) ==
  IF c = "U+FF41" THEN "a"
  ELSE IF c = "U+3002" THEN "."
  ELSE LowerChar(c)

RECURSIVE MapChars(_)
MapChars(s) ==
  IF s = <<>> THEN <<>> ELSE <<UTS46Map(Head(s))>> \o MapChars(Tail(s))

ForbiddenHostCodePoints ==
  { " ", "#", "/", ":", "<", ">", "?", "@", "[", "\\", "]", "^", "|", "%" }

\* domain to ASCII: percent-decode, map, Punycode the labels that need it.
domainToASCII(host) == toASCII(MapChars(PercentDecode(host)))

IsDoubleDot(seg) ==
  toLowerCase(seg) \in { <<".", ".">>, <<".", "%", "2", "e">>, <<"%", "2", "e", ".">>,
                         <<"%", "2", "e", "%", "2", "e">> }

IsSingleDot(seg) == toLowerCase(seg) \in { <<".">>, <<"%", "2", "e">> }

\* The path state: dot segments are resolved as the segments are read.
RECURSIVE PathSegments(_, _)
PathSegments(segs, acc) ==
  IF segs = <<>> THEN acc
  ELSE LET seg  == Head(segs)
           last == Len(segs) = 1
           acc1 == IF IsDoubleDot(seg)
                     THEN (IF acc = <<>> THEN acc ELSE SubSeq(acc, 1, Len(acc) - 1))
                            \o (IF last THEN << <<>> >> ELSE <<>>)
                   ELSE IF IsSingleDot(seg)
                     THEN acc \o (IF last THEN << <<>> >> ELSE <<>>)
                   ELSE Append(acc, seg)
       IN  PathSegments(Tail(segs), acc1)

URLFailure ==
  [ok |-> FALSE, protocol |-> <<>>, username |-> <<>>, password |-> <<>>,
   hostname |-> <<>>, port |-> <<>>, pathname |-> <<>>, search |-> <<>>,
   hash |-> <<>>, origin |-> <<>>]

Slashes(special) == IF special THEN { "/", "\\" } ELSE { "/" }

\* The path state on what follows the authority, up to the query or fragment.
PathOf(special, after) ==
  LET pathEnd == IndexOfAny(after, { "?", "#" })
      pathRaw == IF pathEnd = 0 THEN after ELSE Before(after, pathEnd)
  IN  IF pathRaw = <<>> THEN (IF special THEN <<"/">> ELSE <<>>)
      ELSE <<"/">> \o Join(PathSegments(Split(Tail(pathRaw), Slashes(special)), <<>>), <<"/">>)

\* The query state: what lies between the first "?" and the fragment.
QueryOf(after) ==
  LET mark == IndexOfAny(after, { "?", "#" })
      tail == IF mark = 0 THEN <<>> ELSE From(after, mark)
      hashAt == IndexOfAny(tail, { "#" })
  IN  IF tail = <<>> \/ Head(tail) /= "?" THEN <<>>
      ELSE IF hashAt = 0 THEN Tail(tail) ELSE SubSeq(tail, 2, hashAt - 1)

\* The fragment state: what follows the first "#".
FragmentOf(after) ==
  LET hashAt == IndexOfAny(after, { "#" })
  IN  IF hashAt = 0 THEN <<>> ELSE From(after, hashAt + 1)

\* The host parser: an IPv6 literal is kept, a domain of a special scheme goes
\* through domain to ASCII, any other host is opaque.
HostOf(special, hostRaw) ==
  IF hostRaw /= <<>> /\ Head(hostRaw) = "[" THEN toLowerCase(hostRaw)
  ELSE IF special THEN domainToASCII(hostRaw)
  ELSE hostRaw

\* The port state: the default port of the scheme is dropped.
PortOf(scheme, special, portRaw) ==
  IF portRaw = <<>> THEN <<>>
  ELSE IF special /\ ParseDec(portRaw) = DefaultPort(scheme) THEN <<>>
  ELSE ToDec(ParseDec(portRaw))

\* The URL record of the components, or the failure of the host or port.
BuildURL(scheme, special, credentials, username, password, host, port, portRaw, after) ==
  IF \/ ~AllIn(portRaw, Digits)
     \/ (portRaw /= <<>> /\ (Len(portRaw) > 5 \/ ParseDec(portRaw) > 65535))
     \/ (special /\ host = <<>>)
     \/ (credentials /\ host = <<>>)
     \/ (\E i \in 1..Len(host) :
           host[i] \in ForbiddenHostCodePoints \ { "[", "]", ":" })
     \/ (\E i \in 1..Len(host) : host[i] \in { "[", "]", ":" }) /\ Head(host) /= "["
    THEN URLFailure
    ELSE [ok |-> TRUE,
          protocol |-> scheme \o <<":">>,
          username |-> username,
          password |-> password,
          hostname |-> host,
          port     |-> port,
          pathname |-> PathOf(special, after),
          search   |-> IF QueryOf(after) = <<>> THEN <<>> ELSE <<"?">> \o QueryOf(after),
          hash     |-> IF FragmentOf(after) = <<>> THEN <<>> ELSE <<"#">> \o FragmentOf(after),
          origin   |-> IF special
                         THEN scheme \o <<":", "/", "/">> \o host
                                \o (IF port = <<>> THEN <<>> ELSE <<":">> \o port)
                         ELSE Str_null]

\* The host state: the host ends at the first ":" outside brackets, the port follows.
SplitHostPort(scheme, special, credentials, username, password, hostport, after) ==
  LET bracket == hostport /= <<>> /\ Head(hostport) = "["
      closing == IndexOfAny(hostport, { "]" })
      hColon  == IF bracket
                   THEN (IF closing /= 0 /\ closing < Len(hostport) THEN closing + 1 ELSE 0)
                   ELSE IndexOfAny(hostport, { ":" })
      hostRaw == IF hColon = 0 THEN hostport ELSE Before(hostport, hColon)
      portRaw == IF hColon = 0 THEN <<>> ELSE From(hostport, hColon + 1)
  IN  IF \/ (bracket /\ closing = 0)
         \/ (bracket /\ closing < Len(hostport) /\ hostport[closing + 1] /= ":")
        THEN URLFailure
        ELSE BuildURL(scheme, special, credentials, username, password,
                      HostOf(special, hostRaw), PortOf(scheme, special, portRaw),
                      portRaw, after)

\* The credentials: what precedes the last "@" of the authority, split at its
\* first ":".
SplitUserinfo(scheme, special, authority, after) ==
  LET at       == LastIndexOfAny(authority, { "@" })
      userinfo == IF at = 0 THEN <<>> ELSE Before(authority, at)
      uColon   == IndexOfAny(userinfo, { ":" })
  IN  SplitHostPort(scheme, special, at /= 0,
                    IF uColon = 0 THEN userinfo ELSE Before(userinfo, uColon),
                    IF uColon = 0 THEN <<>> ELSE From(userinfo, uColon + 1),
                    From(authority, at + 1), after)

\* The authority state: the authority ends at the first "/", "?" or "#" (or
\* "\" in a special scheme).
SplitAuthority(scheme, special, rest) ==
  LET authEnd == IndexOfAny(rest, Slashes(special) \cup { "?", "#" })
  IN  SplitUserinfo(scheme, special,
                    IF authEnd = 0 THEN rest ELSE Before(rest, authEnd),
                    IF authEnd = 0 THEN <<>> ELSE From(rest, authEnd))

\* A URL with an opaque path: no authority, no host.
OpaqueURL(scheme, rest) ==
  LET pathEnd == IndexOfAny(rest, { "?", "#" })
  IN  [ok |-> TRUE,
       protocol |-> scheme \o <<":">>,
       username |-> <<>>,
       password |-> <<>>,
       hostname |-> <<>>,
       port     |-> <<>>,
       pathname |-> IF pathEnd = 0 THEN rest ELSE Before(rest, pathEnd),
       search   |-> IF QueryOf(rest) = <<>> THEN <<>> ELSE <<"?">> \o QueryOf(rest),
       hash     |-> IF FragmentOf(rest) = <<>> THEN <<>> ELSE <<"#">> \o FragmentOf(rest),
       origin   |-> Str_null]

\* The parse of rest, what follows "scheme:".  A special scheme ignores the
\* slashes before its authority; any other has an authority only after "//".
ParseAfterScheme(scheme, rest) ==
  IF IsSpecial(scheme)
    THEN SplitAuthority(scheme, TRUE, DropLeading(rest, Slashes(TRUE)))
  ELSE IF startsWith(rest, <<"/", "/">>)
    THEN SplitAuthority(scheme, FALSE, From(rest, 3))
  ELSE OpaqueURL(scheme, rest)

\* new URL(input): a record with ok = FALSE stands for the TypeError thrown.
ParseURL(input) ==
  LET colon  == IndexOfAny(input, { ":" })
      scheme == Before(input, colon)
  IN  IF \/ colon < 2
         \/ input[1] \notin Letters
         \/ ~AllIn(scheme, Letters \cup Digits \cup { "+", "-", "." })
        THEN URLFailure
        ELSE ParseAfterScheme(toLowerCase(scheme), From(input, colon + 1))

(***************************************************************************)
(* decodeURIComponent                                                      *)
(***************************************************************************)

HexChars == <<"0", "1", "2", "3", "4", "5", "6", "7", "8", "9", "A", "B", "C", "D", "E", "F">>

RECURSIVE ToHex(_, _)
ToHex(n, width) ==
  IF width = 0 THEN "" ELSE ToHex(n \div 16, width - 1) \o HexChars[(n % 16) + 1]

\* The character with code point n: printable ASCII as itself, any other as U+XXXX.
FromCodePoint(n) ==
  IF n \in FirstPrintable..126 THEN CharOf(n)
  ELSE "U+" \o ToHex(n, IF n > 65535 THEN 6 ELSE 4)

IsEscape(s, i) ==
  /\ i + 2 <= Len(s) /\ s[i] = "%" /\ s[i + 1] \in HexDigits /\ s[i + 2] \in HexDigits

EscapeByte(s, i) == 16 * HexVal(s[i + 1]) + HexVal(s[i + 2])

\* The number of bytes of the UTF-8 sequence that lead byte b opens, or 0.
Utf8Length(b) ==
  IF b < 128 THEN 1
  ELSE IF b \in 192..223 THEN 2
  ELSE IF b \in 224..239 THEN 3
  ELSE IF b \in 240..247 THEN 4
  ELSE 0

Utf8LeadBits(b, n) ==
  IF n = 1 THEN b ELSE IF n = 2 THEN b % 32 ELSE IF n = 3 THEN b % 16 ELSE b % 8

Utf8Min(n) == IF n = 1 THEN 0 ELSE IF n = 2 THEN 128 ELSE IF n = 3 THEN 2048 ELSE 65536

\* The continuation bytes %XX at s[i], s[i+3], ... folded into code point acc;
\* -1 when one of them is missing or is no continuation byte.
RECURSIVE Utf8Continue(_, _, _, _)
Utf8Continue(s, i, left, acc) ==
  IF left = 0 THEN acc
  ELSE IF ~IsEscape(s, i) \/ EscapeByte(s, i) \notin 128..191 THEN -1
  ELSE Utf8Continue(s, i + 3, left - 1, acc * 64 + (EscapeByte(s, i) % 64))

DecodeFailure == [ok |-> FALSE, value |-> <<>>]

\* decodeURIComponent(s) from index i on; ok = FALSE stands for the URIError thrown.
RECURSIVE DecodeFrom(_, _)
DecodeFrom(s, i) ==
  IF i > Len(s) THEN [ok |-> TRUE, value |-> <<>>]
  ELSE IF s[i] /= "%"
    THEN LET rest == DecodeFrom(s, i + 1)
         IN  IF rest.ok THEN [ok |-> TRUE, value |-> <<s[i]>> \o rest.value]
             ELSE DecodeFailure
  ELSE IF ~IsEscape(s, i) THEN DecodeFailure
  ELSE LET b  == EscapeByte(s, i)
           n  == Utf8Length(b)
           cp == IF n = 0 THEN -1 ELSE Utf8Continue(s, i + 3, n - 1, Utf8LeadBits(b, n))
       IN  IF n = 0 \/ cp < Utf8Min(n) \/ cp > 1114111 \/ cp \in 55296..57343
             THEN DecodeFailure
             ELSE LET rest == DecodeFrom(s, i + 3 * n)
                  IN  IF rest.ok
                        THEN [ok |-> TRUE, value |-> <<FromCodePoint(cp)>> \o rest.value]
                        ELSE DecodeFailure

decodeURIComponent(s) == DecodeFrom(s, 1)

(***************************************************************************)
(* net.isIPv4, net.isIPv6 and isPrivateAddress                             *)
(***************************************************************************)

\* One decimal octet of an IPv4 address: 0..255, no leading zero.
IsV4Octet(p) ==
  /\ Len(p) \in 1..3
  /\ AllIn(p, Digits)
  /\ (Len(p) > 1 => p[1] /= "0")
  /\ ParseDec(p) <= 255

\* net.isIPv4
isIPv4(ip) ==
  LET parts == Split(ip, { "." })
  IN  Len(parts) = 4 /\ \A i \in 1..4 : IsV4Octet(parts[i])

IsHextet(p) == Len(p) \in 1..4 /\ AllIn(p, HexDigits)

\* The groups of one side of an IPv6 address; the last may be a dotted IPv4
\* address, which counts for two.
V6Groups(side) == IF side = <<>> THEN <<>> ELSE Split(side, { ":" })

V6GroupsOk(groups, v4Last) ==
  \A i \in 1..Len(groups) :
    \/ IsHextet(groups[i])
    \/ (v4Last /\ i = Len(groups) /\ isIPv4(groups[i]))

V6Count(groups) ==
  IF groups /= <<>> /\ isIPv4(groups[Len(groups)]) THEN Len(groups) + 1 ELSE Len(groups)

\* The index of the first "::" of ip, or 0.
DoubleColonAt(ip) ==
  IF includes(ip, <<":", ":">>)
    THEN CHOOSE i \in 1..(Len(ip) - 1) :
           /\ ip[i] = ":" /\ ip[i + 1] = ":"
           /\ \A j \in 1..(i - 1) : ~(ip[j] = ":" /\ ip[j + 1] = ":")
    ELSE 0

\* net.isIPv6 (without zone identifiers)
isIPv6(ip) ==
  LET dc == DoubleColonAt(ip)
  IN  IF dc = 0
        THEN LET g == V6Groups(ip) IN V6GroupsOk(g, TRUE) /\ V6Count(g) = 8
        ELSE LET left  == V6Groups(Before(ip, dc))
                 right == V6Groups(From(ip, dc + 2))
             IN  /\ V6GroupsOk(left, FALSE)
                 /\ V6GroupsOk(right, TRUE)
                 /\ Len(left) + V6Count(right) <= 7

Str_10       == <<"1", "0", ".">>
Str_127      == <<"1", "2", "7", ".">>
Str_169_254  == <<"1", "6", "9", ".", "2", "5", "4", ".">>
Str_172_16   == <<"1", "7", "2", ".", "1", "6", ".">>
Str_172_17   == <<"1", "7", "2", ".", "1", "7", ".">>
Str_172_18   == <<"1", "7", "2", ".", "1", "8", ".">>
Str_172_19   == <<"1", "7", "2", ".", "1", "9", ".">>
Str_172_2    == <<"1", "7", "2", ".", "2">>
Str_192_168  == <<"1", "9", "2", ".", "1", "6", "8", ".">>
Str_loopback6 == <<":", ":", "1">>
Str_fc       == <<"f", "c">>
Str_fd       == <<"f", "d">>
Str_fe80     == <<"f", "e", "8", "0">>

IsPrivateV4(ip) ==
  \/ startsWith(ip, Str_10)
  \/ startsWith(ip, Str_127)
  \/ startsWith(ip, Str_169_254)
  \/ startsWith(ip, Str_172_16) \/ startsWith(ip, Str_172_17)
  \/ startsWith(ip, Str_172_18) \/ startsWith(ip, Str_172_19)
  \/ startsWith(ip, Str_172_2)
  \/ startsWith(ip, Str_192_168)

IsPrivateV6(ip) ==
  \/ ip = Str_loopback6
  \/ startsWith(ip, Str_fc)
  \/ startsWith(ip, Str_fd)
  \/ startsWith(ip, Str_fe80)

isPrivateAddress(ip) ==
  \/ (isIPv4(ip) /\ IsPrivateV4(ip))
  \/ (isIPv6(ip) /\ IsPrivateV6(ip))

(***************************************************************************)
(* JSON.parse                                                              *)
(*                                                                         *)
(* A JSON value is [type, text, members]: text is the content of a string  *)
(* or the digits of a number, members the properties of an object in       *)
(* insertion order.  Arrays and fractions are outside the model's inputs   *)
(* and are rejected like any other text the grammar does not cover.        *)
(***************************************************************************)

JsonValueOf(type, text, members) == [type |-> type, text |-> text, members |-> members]

JsonNull == JsonValueOf("null", <<>>, <<>>)

EmptyObject == JsonValueOf("object", <<>>, <<>>)

JsonFail == [ok |-> FALSE, value |-> JsonNull, next |-> 0]

JsonWhitespace == { " " }

RECURSIVE SkipWs(_, _)
SkipWs(s, i) == IF i <= Len(s) /\ s[i] \in JsonWhitespace THEN SkipWs(s, i + 1) ELSE i

Str_true  == <<"t", "r", "u", "e">>
Str_false == <<"f", "a", "l", "s", "e">>

HasAt(s, i, word) == i + Len(word) - 1 <= Len(s) /\ SubSeq(s, i, i + Len(word) - 1) = word

\* The characters of a string literal from s[i] on (after the opening quote).
RECURSIVE JsonChars(_, _, _)
JsonChars(s, i, acc) ==
  IF i > Len(s) THEN JsonFail
  ELSE IF s[i] = "\"" THEN [ok |-> TRUE, value |-> JsonValueOf("string", acc, <<>>), next |-> i + 1]
  ELSE IF s[i] /= "\\" THEN JsonChars(s, i + 1, Append(acc, s[i]))
  ELSE IF i + 1 > Len(s) THEN JsonFail
  ELSE IF s[i + 1] \in { "\"", "\\", "/" } THEN JsonChars(s, i + 2, Append(acc, s[i + 1]))
  ELSE IF s[i + 1] = "u" /\ i + 5 <= Len(s) /\ AllIn(SubSeq(s, i + 2, i + 5), HexDigits)
    THEN JsonChars(s, i + 6,
                   Append(acc, FromCodePoint(4096 * HexVal(s[i + 2]) + 256 * HexVal(s[i + 3])
                                               + 16 * HexVal(s[i + 4]) + HexVal(s[i + 5]))))
  ELSE JsonFail

\* The digits of a number literal from s[i] on.
RECURSIVE NumberEnd(_, _)
NumberEnd(s, i) == IF i <= Len(s) /\ s[i] \in Digits THEN NumberEnd(s, i + 1) ELSE i

JsonNumber(s, i) ==
  LET start == IF s[i] = "-" THEN i + 1 ELSE i
      end   == NumberEnd(s, start)
  IN  IF end = start \/ (end - start > 1 /\ s[start] = "0") THEN JsonFail
      ELSE [ok |-> TRUE, value |-> JsonValueOf("number", SubSeq(s, i, end - 1), <<>>),
            next |-> end]

\* obj[key] = value: an existing property keeps its place.
SetMember(members, key, value) ==
  IF \E k \in 1..Len(members) : members[k].key = key
    THEN [ k \in 1..Len(members) |->
             IF members[k].key = key THEN [key |-> key, value |-> value] ELSE members[k] ]
    ELSE Append(members, [key |-> key, value |-> value])

RECURSIVE JsonValue(_, _), JsonMembers(_, _, _)

\* The value that starts at s[i] (after white space).
JsonValue(s, i0) ==
  LET i == SkipWs(s, i0)
  IN  IF i > Len(s) THEN JsonFail
      ELSE IF s[i] = "\"" THEN JsonChars(s, i + 1, <<>>)
      ELSE IF s[i] = "{"
        THEN LET j == SkipWs(s, i + 1)
             IN  IF j <= Len(s) /\ s[j] = "}"
                   THEN [ok |-> TRUE, value |-> EmptyObject, next |-> j + 1]
                   ELSE JsonMembers(s, j, <<>>)
      ELSE IF HasAt(s, i, Str_null) THEN [ok |-> TRUE, value |-> JsonNull, next |-> i + 4]
      ELSE IF HasAt(s, i, Str_true)
        THEN [ok |-> TRUE, value |-> JsonValueOf("true", <<>>, <<>>), next |-> i + 4]
      ELSE IF HasAt(s, i, Str_false)
        THEN [ok |-> TRUE, value |-> JsonValueOf("false", <<>>, <<>>), next |-> i + 5]
      ELSE IF s[i] \in Digits \cup { "-" } THEN JsonNumber(s, i)
      ELSE JsonFail

\* The properties "key":value,... of an object from s[i] on, up to its "}".
JsonMembers(s, i, acc) ==
  IF i > Len(s) \/ s[i] /= "\"" THEN JsonFail
  ELSE LET key   == JsonChars(s, i + 1, <<>>)
           colon == SkipWs(s, key.next)
       IN  IF ~key.ok \/ colon > Len(s) \/ s[colon] /= ":" THEN JsonFail
           ELSE LET val == JsonValue(s, colon + 1)
                    sep == SkipWs(s, val.next)
                    all == SetMember(acc, key.value.text, val.value)
                IN  IF ~val.ok \/ sep > Len(s) THEN JsonFail
                    ELSE IF s[sep] = "}"
                      THEN [ok |-> TRUE, value |-> JsonValueOf("object", <<>>, all),
                            next |-> sep + 1]
                    ELSE IF s[sep] = "," THEN JsonMembers(s, SkipWs(s, sep + 1), all)
                    ELSE JsonFail

\* JSON.parse(text): ok = FALSE stands for the SyntaxError thrown.
JSONParse(text) ==
  LET r == JsonValue(text, 1)
  IN  IF r.ok /\ SkipWs(text, r.next) > Len(text)
        THEN [ok |-> TRUE, value |-> r.value]
        ELSE [ok |-> FALSE, value |-> JsonNull]

(***************************************************************************)
(* The handler: module.exports = (req, res) => { ... }                     *)
(***************************************************************************)

\* undefined, as req.header gives it for a header the request does not carry.
undefined == <<"undefined">>

\* JavaScript truthiness of a string or undefined.
Truthy(v) == v /= undefined /\ v /= <<>>

\* The request headers the handler or a claim looks at.  req.header is case
\* insensitive: the names are kept in lower case.
HeaderNames ==
  { "target-url", "customheaders", "access-control-request-headers", "cookie",
    "authorization" }

ResponseHeaderNames ==
  { "Access-Control-Allow-Origin", "Access-Control-Allow-Methods",
    "Access-Control-Allow-Headers" }

Str_star == <<"*">>

Str_methods == <<"G", "E", "T", ",", " ", "P", "U", "T", ",", " ", "P", "A", "T", "C", "H", ",", " ", "P", "O", "S", "T", ",", " ", "D", "E", "L", "E", "T", "E">>

Str_https_colon == Str_https \o <<":">>

Str_443 == <<"4", "4", "3">>

Str_dotdot == <<".", ".">>

\* A JavaScript string value, and the body { error: <value> }.
StringValue(s) == [type |-> "string", text |-> s]

ErrorBody(v) == [type |-> "json", error |-> v]

NoBody == [type |-> "none"]

DataBody(d) == [type |-> "data", data |-> d]

NoURL == URLFailure

NoConfig == [method |-> "", url |-> <<>>, data |-> "", headers |-> JsonNull]

\* One invocation of the handler: the request, the response object, the
\* closure variables, and the calls it has made so far.
\* No connection made.
NoAddress == [address |-> <<>>, family |-> 0]

NewInvocation(req) ==
  [pc        |-> "received",
   req       |-> req,
   res       |-> [headers |-> [n \in ResponseHeaderNames |-> undefined],
                  sent    |-> <<>>],
   read      |-> {},
   targetURL |-> undefined,
   parsed    |-> NoURL,
   hostname  |-> <<>>,
   lookups   |-> <<>>,
   addrs     |-> <<>>,
   requests  |-> <<>>,
   lookupOutcome  |-> "none",
   requestOutcome |-> "none",
   connected      |-> NoAddress]

Idle ==
  [NewInvocation([method |-> "", headers |-> [n \in HeaderNames |-> undefined],
                  body |-> ""]) EXCEPT !.pc = "idle"]

\* req.header(name); the invocation remembers which headers were read.
ReadHeader(h, name) == [h EXCEPT !.read = @ \cup { name }]

\* res.header(name, value)
SetHeader(h, name, value) == [h EXCEPT !.res.headers[name] = value]

\* res.status(status).send(body), and the return that follows it.
Send(h, status, body) ==
  [h EXCEPT !.res.sent = Append(@, [status  |-> status,
                                    headers |-> h.res.headers,
                                    body    |-> body]),
            !.pc = "done"]

\* Lines 93-95: the echo of the requested headers.
EchoRequestedHeaders(h, requested) ==
  IF Truthy(requested)
    THEN SetHeader(ReadHeader(h, "access-control-request-headers"),
                   "Access-Control-Allow-Headers", requested)
    ELSE ReadHeader(h, "access-control-request-headers")

\* Response headers without the allow-methods header.
ApplyCorsHeadersNoMethods(h) ==
  EchoRequestedHeaders(SetHeader(h, "Access-Control-Allow-Origin", Str_star),
                       h.req.headers["access-control-request-headers"])

\* Lines 90-95: the allow-all response headers.
ApplyCorsHeaders(h) ==
  EchoRequestedHeaders(
    SetHeader(SetHeader(h, "Access-Control-Allow-Origin", Str_star),
              "Access-Control-Allow-Methods", Str_methods),
    h.req.headers["access-control-request-headers"])

\* A pre-flight test that compares with the verb in lower case.
IsPreflightLowerCase(req) == req.method = "options"

\* Line 98
IsPreflight(req) == req.method = "OPTIONS"

\* A canonicalization that keeps the trailing dots.
CanonicalHostnameKeepingDots(parsed) == toASCII(toLowerCase(parsed.hostname))

\* Line 118
CanonicalHostname(parsed) ==
  toASCII(StripTrailingDots(toLowerCase(parsed.hostname)))

\* Line 119: ALLOWED_HOSTNAMES.includes(hostname)
HostnameAllowed(allowed, hostname) ==
  \E i \in 1..Len(allowed) : allowed[i] = hostname

\* Lines 119-147: the allow-list check, then the call of dns.lookup.
CheckHostname(h, hostname, allowed) ==
  IF ~HostnameAllowed(allowed, hostname)
    THEN Send([h EXCEPT !.hostname = hostname], 403,
              ErrorBody(StringValue("Target hostname is not allowed")))
    ELSE [h EXCEPT !.hostname = hostname,
                   !.lookups = Append(@, [hostname |-> hostname, all |-> TRUE]),
                   !.pc = "lookup"]

\* Lines 109-118: the parse of the target and the canonical hostname.
CheckParsed(h, parsed, allowed) ==
  IF ~parsed.ok
    THEN Send(h, 400, ErrorBody(StringValue("Invalid Target-URL format")))
    ELSE CheckHostname([h EXCEPT !.parsed = parsed], CanonicalHostname(parsed), allowed)

\* Lines 104-111: the Target-URL header.
CheckTarget(h, targetURL, allowed) ==
  IF ~Truthy(targetURL)
    THEN Send([h EXCEPT !.targetURL = targetURL], 400,
              ErrorBody(StringValue("Missing Target-URL header in the request")))
    ELSE CheckParsed([h EXCEPT !.targetURL = targetURL], ParseURL(targetURL), allowed)

\* Lines 97-104: the pre-flight branch.
CheckMethod(h, allowed) ==
  IF IsPreflight(h.req) THEN Send(h, 200, NoBody)
  ELSE CheckTarget(ReadHeader(h, "target-url"), h.req.headers["target-url"], allowed)

\* Lines 89-147: the synchronous part of the handler, up to the call of dns.lookup.
Handle(h, allowed) == CheckMethod(ApplyCorsHeaders(h), allowed)

\* A guard that looks at the first address of the answer only.
FirstPrivate(addrs) == addrs /= <<>> /\ isPrivateAddress(addrs[1].address)

\* Line 148: addrs.some(a => isPrivateAddress(a.address))
SomePrivate(addrs) == \E i \in 1..Len(addrs) : isPrivateAddress(addrs[i].address)

\* A scheme check that matches on the prefix "http".
IsHttpPrefix(parsed) == startsWith(parsed.protocol, Str_http)

\* Line 153
IsHttps(parsed) == parsed.protocol = Str_https_colon

\* Line 158
IsDefaultPort(parsed) == ~(Truthy(parsed.port) /\ parsed.port /= Str_443)

\* Line 164
HasTraversal(parsed, decodePath) ==
  includes(parsed.pathname, Str_dotdot) \/ includes(decodePath, Str_dotdot)

\* Line 169
HasUserinfo(parsed) == Truthy(parsed.username) \/ Truthy(parsed.password)

\* Line 174
HasFragment(parsed) == Truthy(parsed.hash) /\ parsed.hash /= <<>>

\* A request config that sends the call to the address the lookup returned.
RequestConfigPinnedToAddress(h, headers) ==
  [method  |-> h.req.method,
   url     |-> Str_https \o <<":", "/", "/">> \o h.addrs[1].address \o h.parsed.pathname \o h.parsed.search,
   data    |-> h.req.body,
   headers |-> headers]

\* A request config that sends the header text as the URL.
RequestConfigWithRawURL(h, headers) ==
  [method  |-> h.req.method,
   url     |-> h.targetURL,
   data    |-> h.req.body,
   headers |-> headers]

\* A request config that passes the caller's own headers on.
RequestConfigWithIncomingHeaders(h, headers) ==
  [method  |-> h.req.method,
   url     |-> h.parsed.origin \o h.parsed.pathname \o h.parsed.search,
   data    |-> h.req.body,
   headers |-> h.req.headers]

\* Lines 190-195
RequestConfig(h, headers) ==
  [method  |-> h.req.method,
   url     |-> h.parsed.origin \o h.parsed.pathname \o h.parsed.search,
   data    |-> h.req.body,
   headers |-> headers]

\* A forwarding step that swallows the parse error and sends no custom headers.
ForwardIgnoringParseError(h) ==
  LET custom == h.req.headers["customheaders"]
      json   == JSONParse(custom)
  IN  [h EXCEPT !.read = @ \cup { "customheaders" },
                !.requests = Append(@, RequestConfig(h,
                               IF Truthy(custom) /\ json.ok THEN json.value ELSE EmptyObject)),
                !.pc = "request"]

\* Lines 179-198: the custom headers, then the outbound call.
Forward(h) ==
  LET custom == h.req.headers["customheaders"]
      h1     == ReadHeader(h, "customheaders")
      json   == JSONParse(custom)
  IN  IF Truthy(custom) /\ ~json.ok
        THEN Send(h1, 400, ErrorBody(StringValue("Malformed CustomHeaders JSON")))
        ELSE LET headers == IF Truthy(custom) THEN json.value ELSE EmptyObject
             IN  [h1 EXCEPT !.requests = Append(@, RequestConfig(h1, headers)),
                            !.pc = "request"]

\* Lines 147-198: the callback of dns.lookup(...).then.  pc = "thrown" stands
\* for the exception that leaves the callback and rejects the promise.
LookupThen(h0, addrs) ==
  LET h      == [h0 EXCEPT !.addrs = addrs, !.lookupOutcome = "fulfilled"]
      parsed == h.parsed
      decode == decodeURIComponent(parsed.pathname)
  IN  IF SomePrivate(addrs)
        THEN Send(h, 403, ErrorBody(StringValue(
               "Target hostname resolves to private/internal IP (not allowed)")))
      ELSE IF ~IsHttps(parsed)
        THEN Send(h, 400, ErrorBody(StringValue("Only HTTPS protocol is allowed")))
      ELSE IF ~IsDefaultPort(parsed)
        THEN Send(h, 400, ErrorBody(StringValue("Only default HTTPS port (443) is allowed")))
      ELSE IF ~decode.ok
        THEN [h EXCEPT !.pc = "thrown"]
      ELSE IF HasTraversal(parsed, decode.value)
        THEN Send(h, 400, ErrorBody(StringValue("Path traversal is not allowed in the URL path")))
      ELSE IF HasUserinfo(parsed)
        THEN Send(h, 400, ErrorBody(StringValue("User information in URL is not allowed")))
      ELSE IF HasFragment(parsed)
        THEN Send(h, 400, ErrorBody(StringValue("URL fragments are not allowed")))
      ELSE Forward(h)

\* A lookup chain without its .catch: the rejection is dropped, nothing is sent.
LookupCatchMissing(h) == [h EXCEPT !.pc = "unhandled"]

\* A .catch that falls through to the forwarding step.
LookupCatchProceeding(h) == Forward(h)

\* Lines 204-206: the .catch of the lookup chain.
LookupCatch(h) == Send(h, 500, ErrorBody(StringValue("DNS resolution failed")))

\* Lines 199-200
RequestThen(h, response) ==
  [Send(h, 200, DataBody(response.data)) EXCEPT !.requestOutcome = "fulfilled"]

\* A .catch that issues the outbound call once more instead of answering.
RequestCatchRetrying(h, error) ==
  [h EXCEPT !.requests = Append(@, @[Len(@)]), !.requestOutcome = "rejected"]

\* Lines 201-202: send({ error }) with the error axios rejected with.
RequestCatch(h, error) ==
  [Send(h, 500, ErrorBody(error)) EXCEPT !.requestOutcome = "rejected"]

\* Lines 11-15: the allow-list of the first revision, compared as written.
FirstAllowedHostnames == <<api_example_com, service_example_net>>

\* Lines 52-57: the request config of the first revision.
FirstRequestConfig(h, headers) ==
  [method  |-> h.req.method,
   url     |-> h.targetURL,
   json    |-> h.req.body,
   headers |-> headers]

\* Lines 49-60 of the first revision.  JSON.parse is not guarded: its
\* exception leaves the handler (pc = "thrown") before any response.
FirstForward(h, custom, json) ==
  IF Truthy(custom) /\ ~json.ok THEN [h EXCEPT !.pc = "thrown"]
  ELSE [h EXCEPT !.requests = Append(@, FirstRequestConfig(h,
                                IF Truthy(custom) THEN json.value ELSE EmptyObject)),
                 !.pc = "request"]

\* Lines 31-49 of the first revision.  The block opened by if (!targetURL)
\* at line 32 is closed at line 47: the parse of the target and the
\* allow-list test (lines 35-46) stand after its return and are never run.
FirstCheckTarget(h, targetURL) ==
  IF ~Truthy(targetURL)
    THEN Send(h, 400, ErrorBody(StringValue("Missing Target-URL header in the request")))
    ELSE FirstForward(ReadHeader([h EXCEPT !.targetURL = targetURL], "customheaders"),
                      h.req.headers["customheaders"],
                      JSONParse(h.req.headers["customheaders"]))

\* Lines 24-31 of the first revision.
FirstCheckMethod(h) ==
  IF IsPreflight(h.req) THEN Send(h, 200, NoBody)
  ELSE FirstCheckTarget(ReadHeader(h, "target-url"), h.req.headers["target-url"])

\* Lines 16-60: the handler of the first revision up to its outbound call.
FirstHandle(h) == FirstCheckMethod(ApplyCorsHeaders(h))

(***************************************************************************)
(* The inputs: requests, DNS answers, transport outcomes                   *)
(***************************************************************************)

\* The longest run of trailing dots tried on a hostname.
MaxDots == 2

\* The most addresses in one DNS answer.
MaxAddrs == 2

RECURSIVE Dots(_)
Dots(n) == IF n = 0 THEN <<>> ELSE <<".">> \o Dots(n - 1)

Host_upper     == <<"A", "P", "I", ".", "E", "x", "a", "m", "p", "l", "e", ".", "C", "O", "M">>
Host_fullwidth == <<"U+FF41", "p", "i", ".", "e", "x", "a", "m", "p", "l", "e", ".", "c", "o", "m">>
Host_cyrillic  == <<"U+0430", "p", "i", ".", "e", "x", "a", "m", "p", "l", "e", ".", "c", "o", "m">>
Host_evil      == <<"e", "v", "i", "l", ".", "c", "o", "m">>
Host_suffix    == <<"a", "p", "i", ".", "e", "x", "a", "m", "p", "l", "e", ".", "c", "o", "m", ".", "e", "v", "i", "l", ".", "c", "o", "m">>

\* Hostnames as a Target-URL may write them: the allow-listed names, their
\* case, trailing-dot and IDN variants, and names that must not pass.
TargetHosts ==
  { api_example_com \o Dots(n) : n \in 0..MaxDots }
    \cup { Host_upper, Host_fullwidth, service_example_net,
           Host_cyrillic, Host_evil, Host_suffix }

TargetSchemes == { Str_https, Str_http }

TargetUserinfo == { <<>>, <<"u", "s", "e", "r", ":", "p", "w", "@">> }

TargetPorts == { <<>>, <<":", "4", "4", "3">>, <<":", "8", "0", "8", "0">> }

Path_data      == <<"/", "v", "1", "/", "d", "a", "t", "a">>
Path_dotdot    == <<"/", ".", ".", "/", "s", "e", "c", "r", "e", "t">>
Path_encoded   == <<"/", "x", "%", "2", "e", "%", "2", "e", "/", "y">>
Path_literal   == <<"/", "a", ".", ".", "b">>
Path_malformed == <<"/", "%", "z", "z">>

TargetPaths == { Path_data, Path_dotdot, Path_encoded, Path_literal, Path_malformed }

TargetQueries == { <<>>, <<"?", "q", "=", "1">> }

TargetFragments == { <<>>, <<"#", "f", "r", "a", "g">> }

Str_sep == <<":", "/", "/">>

BuildTarget(scheme, userinfo, host, port, path, query, fragment) ==
  scheme \o Str_sep \o userinfo \o host \o port \o path \o query \o fragment

\* Every combination of the components above.
SweepTargets ==
  { BuildTarget(t[1], t[2], t[3], t[4], t[5], t[6], t[7]) :
      t \in TargetSchemes \X TargetUserinfo \X TargetHosts \X TargetPorts
              \X TargetPaths \X TargetQueries \X TargetFragments }

Target_good == BuildTarget(Str_https, <<>>, api_example_com, <<>>, Path_data, <<>>, <<>>)

\* Target-URL values that are no absolute URL.
Target_noscheme == api_example_com \o Path_data
Target_text     == <<"n", "o", "t", " ", "a", " ", "u", "r", "l">>

\* One target per validation rule, each violating that rule alone.
RuleTargets ==
  { Target_good,
    BuildTarget(Str_https, <<>>, Host_evil, <<>>, Path_data, <<>>, <<>>),
    BuildTarget(Str_http, <<>>, api_example_com, <<>>, Path_data, <<>>, <<>>),
    BuildTarget(Str_https, <<>>, api_example_com, <<":", "8", "0", "8", "0">>, Path_data, <<>>, <<>>),
    BuildTarget(Str_https, <<>>, api_example_com, <<>>, Path_encoded, <<>>, <<>>),
    BuildTarget(Str_https, <<>>, api_example_com, <<>>, Path_malformed, <<>>, <<>>),
    BuildTarget(Str_https, <<"u", "s", "e", "r", ":", "p", "w", "@">>, api_example_com, <<>>, Path_data, <<>>, <<>>),
    BuildTarget(Str_https, <<>>, api_example_com, <<>>, Path_data, <<>>, <<"#", "f", "r", "a", "g">>),
    Target_text, undefined }

Methods == { "GET", "POST", "OPTIONS" }

Custom_valid     == <<"{", "\"", "X", "-", "A", "p", "i", "-", "K", "e", "y", "\"", ":", "\"", "k", "1", "\"", "}">>
Custom_malformed == <<"{", "\"", "X", "-", "A", "p", "i", "-", "K", "e", "y", "\"", ":">>

\* A CustomHeaders header sent with an empty value.
Custom_empty == <<>>

CustomHeaderValues == { undefined, Custom_empty, Custom_valid, Custom_malformed }

RequestedHeaderValues == { undefined, <<>>, <<"x", "-", "r", "e", "q", "u", "e", "s", "t", "e", "d", "-", "w", "i", "t", "h">> }

CookieValues == { undefined, <<"s", "i", "d", "=", "1">> }

Request(method, target, custom, requested, cookie) ==
  [method  |-> method,
   headers |-> [n \in HeaderNames |->
                  IF n = "target-url" THEN target
                  ELSE IF n = "customheaders" THEN custom
                  ELSE IF n = "access-control-request-headers" THEN requested
                  ELSE IF n = "cookie" THEN cookie
                  ELSE undefined],
   body    |-> IF method = "POST" THEN "payload" ELSE ""]

\* The requests of the model: every target as a plain GET, and every
\* combination of method and headers on the targets of RuleTargets.
Requests ==
  { Request("GET", t, undefined, undefined, undefined) :
      t \in SweepTargets \cup { Target_noscheme, Target_text, <<>>, undefined } }
    \cup
  { Request(t[1], t[2], t[3], t[4], t[5]) :
      t \in Methods \X RuleTargets \X CustomHeaderValues \X RequestedHeaderValues
              \X CookieValues }

Addr_public4  == [address |-> <<"9", "3", ".", "1", "8", "4", ".", "2", "1", "6", ".", "3", "4">>, family |-> 4]
Addr_private4 == [address |-> <<"1", "0", ".", "0", ".", "0", ".", "5">>, family |-> 4]
Addr_public6  == [address |-> <<"2", "6", "0", "6", ":", "2", "8", "0", "0", ":", "2", "2", "0", ":", "1", ":", ":", "1">>, family |-> 6]
Addr_private6 == [address |-> <<"f", "d", "0", "0", ":", ":", "1">>, family |-> 6]

AddressPool == { Addr_public4, Addr_private4, Addr_public6, Addr_private6 }

RECURSIVE SeqsUpTo(_, _)
SeqsUpTo(S, n) ==
  IF n = 0 THEN { <<>> }
  ELSE LET shorter == SeqsUpTo(S, n - 1)
       IN  shorter \cup { Append(q, x) : q \in shorter, x \in S }

\* What dns.lookup(hostname, { all: true }) may resolve with.
Answers == SeqsUpTo(AddressPool, MaxAddrs) \ { <<>> }

\* What axios.request may resolve with.
Responses == { [status |-> 200, data |-> "upstream body"] }

\* What axios.request may reject with: the error carries the request's config.
TransportError(config) ==
  [type |-> "object", name |-> "AxiosError", code |-> "ECONNREFUSED",
   message |-> "connect ECONNREFUSED", config |-> config]

\* The addresses given to isPrivateAddress on its own: IPv4 addresses a.b.0.1
\* around every boundary of the private ranges, and IPv6 addresses h::1 around
\* the boundaries of fc00::/7 and fe80::/10, as a resolver prints them.
V4FirstOctets == { 9, 10, 11, 126, 127, 128, 169, 172, 192 }

V4SecondOctets == { 0, 2, 15, 16, 19, 20, 29, 30, 31, 32, 168, 200, 254 }

V4Address(a, b, c, d) ==
  ToDec(a) \o <<".">> \o ToDec(b) \o <<".">> \o ToDec(c) \o <<".">> \o ToDec(d)

V6FirstGroups ==
  { <<"f", "c">>,
    <<"f", "e", "8">>,
    <<"f", "b", "f", "f">>,
    <<"f", "c", "0", "0">>,
    <<"f", "c", "f", "f">>,
    <<"f", "d", "0", "0">>,
    <<"f", "d", "f", "f">>,
    <<"f", "e", "0", "0">>,
    <<"f", "e", "7", "f">>,
    <<"f", "e", "8", "0">>,
    <<"f", "e", "8", "f">>,
    <<"f", "e", "9", "0">>,
    <<"f", "e", "b", "f">>,
    <<"f", "e", "c", "0">>,
    <<"f", "f", "0", "2">>,
    <<"2", "0", "0", "1">> }

Str_v6_one == <<":", ":", "1">>

AddressInputs ==
  { V4Address(a, b, 0, 1) : a \in V4FirstOctets, b \in V4SecondOctets }
    \cup { g \o Str_v6_one : g \in V6FirstGroups }
    \cup { Str_v6_one, <<":", ":">>, <<":", ":", "f", "f", "f", "f", ":", "1", "0", ".", "0", ".", "0", ".", "1">> }

(***************************************************************************)
(* The state                                                               *)
(***************************************************************************)

Invocations == { "r1", "r2" }

VARIABLES
  allowed,    \* the array ALLOWED_HOSTNAMES that the module holds
  handler,    \* the invocations of the handler, by request
  ip,         \* the address given to isPrivateAddress, when it is run on its own
  verdict     \* what isPrivateAddress returned for ip: "unset" before the call

vars == <<allowed, handler, ip, verdict>>

\* One request is handled; the other invocation never starts.
Init ==
  /\ allowed = ALLOWED_HOSTNAMES
  /\ \E req \in Requests :
       handler = [r \in Invocations |-> IF r = "r1" THEN NewInvocation(req) ELSE Idle]
  /\ ip = <<>>
  /\ verdict = "unset"

\* A handler that adds the hostname it has accepted to the module's list.
StartRememberingHostname(r) ==
  /\ handler[r].pc = "received"
  /\ handler' = [handler EXCEPT ![r] = Handle(@, allowed)]
  /\ allowed' = IF Handle(handler[r], allowed).pc = "lookup"
                  THEN Append(allowed, Handle(handler[r], allowed).hostname)
                  ELSE allowed
  /\ UNCHANGED <<ip, verdict>>

\* The handler is called with (req, res) and runs to its first await point.
Start(r) ==
  /\ handler[r].pc = "received"
  /\ handler' = [handler EXCEPT ![r] = Handle(@, allowed)]
  /\ UNCHANGED <<allowed, ip, verdict>>

\* dns.lookup resolves: the .then callback runs, and the .catch after it if
\* the callback throws.
LookupFulfilled(r) ==
  /\ handler[r].pc = "lookup"
  /\ \E addrs \in Answers :
       LET after == LookupThen(handler[r], addrs)
       IN  handler' = [handler EXCEPT ![r] =
                         IF after.pc = "thrown" THEN LookupCatch(after) ELSE after]
  /\ UNCHANGED <<allowed, ip, verdict>>

\* dns.lookup rejects: the .catch callback runs.
LookupRejected(r) ==
  /\ handler[r].pc = "lookup"
  /\ handler' = [handler EXCEPT ![r] = LookupCatch([@ EXCEPT !.lookupOutcome = "rejected"])]
  /\ UNCHANGED <<allowed, ip, verdict>>

\* axios.request resolves.  The transport was given a URL: it has resolved
\* the URL's host by itself and connected to an address of that answer, which
\* need not be the answer the handler's own lookup got.
RequestFulfilled(r) ==
  /\ handler[r].pc = "request"
  /\ \E response \in Responses, address \in AddressPool :
       handler' = [handler EXCEPT ![r] =
                     RequestThen([@ EXCEPT !.connected = address], response)]
  /\ UNCHANGED <<allowed, ip, verdict>>

\* axios.request rejects.
RequestRejected(r) ==
  /\ handler[r].pc = "request"
  /\ handler' = [handler EXCEPT ![r] =
                   RequestCatch(@, TransportError(@.requests[Len(@.requests)]))]
  /\ UNCHANGED <<allowed, ip, verdict>>

Next ==
  \E r \in Invocations :
    \/ Start(r)
    \/ LookupFulfilled(r)
    \/ LookupRejected(r)
    \/ RequestFulfilled(r)
    \/ RequestRejected(r)

Spec == Init /\ [][Next]_vars

\* The requests followed to their end: one target per rule of the validator,
\* as a GET and as a pre-flight, with and without a malformed CustomHeaders.
LiveRequests ==
  { Request(t[1], t[2], t[3], undefined, undefined) :
      t \in { "GET", "OPTIONS" } \X RuleTargets \X { undefined, Custom_malformed } }

InitLive ==
  /\ allowed = ALLOWED_HOSTNAMES
  /\ \E req \in LiveRequests :
       handler = [r \in Invocations |-> IF r = "r1" THEN NewInvocation(req) ELSE Idle]
  /\ ip = <<>>
  /\ verdict = "unset"

\* The handler runs once it is called, and each promise it waits for settles:
\* weak fairness of Start, of the settling of the lookup and of the settling
\* of the outbound call, with ENABLED written as the guard of the action
\* (every action changes pc where its guard holds).
Fairness ==
  \A r \in Invocations :
    /\ ([]<>(handler[r].pc /= "received") \/ []<><<Start(r)>>_vars)
    /\ ([]<>(handler[r].pc /= "lookup")
          \/ []<><<LookupFulfilled(r) \/ LookupRejected(r)>>_vars)
    /\ ([]<>(handler[r].pc /= "request")
          \/ []<><<RequestFulfilled(r) \/ RequestRejected(r)>>_vars)

SpecLive == InitLive /\ [][Next]_vars /\ Fairness

\* Two requests in flight at once: each carries Cookie or not, custom headers
\* or not, an allow-listed target or another one.
Target_evil == BuildTarget(Str_https, <<>>, Host_evil, <<>>, Path_data, <<>>, <<>>)

PairRequests ==
  { Request(t[1], t[2], t[3], undefined, t[4]) :
      t \in { "GET", "POST" } \X { Target_good, Target_evil }
              \X { undefined, Custom_valid } \X CookieValues }

\* What the resolver answers while two requests are in flight.
PairAnswers == { <<Addr_public4>>, <<Addr_private4>> }

InitPair ==
  /\ allowed = ALLOWED_HOSTNAMES
  /\ \E req1 \in PairRequests, req2 \in PairRequests :
       handler = [r \in Invocations |->
                    IF r = "r1" THEN NewInvocation(req1) ELSE NewInvocation(req2)]
  /\ ip = <<>>
  /\ verdict = "unset"

\* dns.lookup resolves for one of the two requests in flight.
LookupFulfilledPair(r) ==
  /\ handler[r].pc = "lookup"
  /\ \E addrs \in PairAnswers :
       LET after == LookupThen(handler[r], addrs)
       IN  handler' = [handler EXCEPT ![r] =
                         IF after.pc = "thrown" THEN LookupCatch(after) ELSE after]
  /\ UNCHANGED <<allowed, ip, verdict>>

\* The callbacks of the two invocations run in any order.
NextPair ==
  \E r \in Invocations :
    \/ Start(r)
    \/ LookupFulfilledPair(r)
    \/ LookupRejected(r)
    \/ RequestFulfilled(r)
    \/ RequestRejected(r)

SpecPair == InitPair /\ [][NextPair]_vars

\* The first revision of the handler (lines 16-66) is called with (req, res).
StartFirst(r) ==
  /\ handler[r].pc = "received"
  /\ handler' = [handler EXCEPT ![r] = FirstHandle(@)]
  /\ UNCHANGED <<allowed, ip, verdict>>

\* The first revision: its callbacks of axios.request (lines 61-65) are those
\* of the hardened revision.
NextFirst ==
  \E r \in Invocations :
    \/ StartFirst(r)
    \/ RequestFulfilled(r)
    \/ RequestRejected(r)

SpecFirst == Init /\ [][NextFirst]_vars

\* isPrivateAddress on its own: one address is classified.
InitAddr ==
  /\ allowed = ALLOWED_HOSTNAMES
  /\ handler = [r \in Invocations |-> Idle]
  /\ ip \in AddressInputs
  /\ verdict = "unset"

Classify ==
  /\ verdict = "unset"
  /\ verdict' = IF isPrivateAddress(ip) THEN "private" ELSE "public"
  /\ UNCHANGED <<allowed, handler, ip>>

NextAddr == Classify

SpecAddr == InitAddr /\ [][NextAddr]_vars

(***************************************************************************)
(* Properties                                                              *)
(***************************************************************************)

TargetOf(h) == h.req.headers["target-url"]

CustomOf(h) == h.req.headers["customheaders"]

RequestedOf(h) == h.req.headers["access-control-request-headers"]

OnAllowList(hostname) ==
  \E i \in 1..Len(RAW_ALLOWED_HOSTNAMES) :
    Canonicalize(RAW_ALLOWED_HOSTNAMES[i]) = hostname

\* The rules of the target validator on a parsed target p, stated on the
\* parser's output alone.
TargetRulesHold(p) ==
  /\ p.ok
  /\ OnAllowList(Canonicalize(p.hostname))
  /\ p.protocol = Str_https_colon
  /\ p.port \in { <<>>, Str_443 }
  /\ ~includes(p.pathname, Str_dotdot)
  /\ decodeURIComponent(p.pathname).ok
  /\ ~includes(decodeURIComponent(p.pathname).value, Str_dotdot)
  /\ p.username = <<>>
  /\ p.password = <<>>
  /\ p.hash = <<>>

NoPrivateAddress(addrs) ==
  \A i \in 1..Len(addrs) : ~isPrivateAddress(addrs[i].address)

\* The one response of an invocation that has answered once.
SentOnce(h, status) == Len(h.res.sent) = 1 /\ h.res.sent[1].status = status

SentError(h, status, message) ==
  /\ SentOnce(h, status)
  /\ h.res.sent[1].body = ErrorBody(StringValue(message))

\* The text of a target after its "scheme://" and its credentials.
RawAfterCredentials(target) ==
  From(target, LastIndexOfAny(Before(target,
         IF IndexOfAny(From(target, IndexOfAny(target, { ":" }) + 3), { "/", "?", "#" }) = 0
           THEN Len(target) + 1
           ELSE IndexOfAny(target, { ":" }) + 2
                  + IndexOfAny(From(target, IndexOfAny(target, { ":" }) + 3), { "/", "?", "#" })),
       { "@", "/" }) + 1)

\* The hostname of a target as the caller wrote it.
RawHost(target) ==
  IF IndexOfAny(RawAfterCredentials(target), { ":", "/", "?", "#" }) = 0
    THEN RawAfterCredentials(target)
    ELSE Before(RawAfterCredentials(target),
                IndexOfAny(RawAfterCredentials(target), { ":", "/", "?", "#" }))

\* The path of a target as the caller wrote it.
RawPath(target) ==
  IF IndexOfAny(RawAfterCredentials(target), { "/" }) = 0 THEN <<>>
  ELSE Split(From(RawAfterCredentials(target),
                  IndexOfAny(RawAfterCredentials(target), { "/" })), { "?", "#" })[1]

\* A path with "..", as written or after percent-decoding.
HasParentSegment(path) ==
  \/ includes(path, Str_dotdot)
  \/ (decodeURIComponent(path).ok /\ includes(decodeURIComponent(path).value, Str_dotdot))

Running(h) == h.pc \notin { "idle", "received" }

\* The first rule of the validator that parsed target p violates, in the
\* order of the specification (3 allow-list, 4 scheme, 5 port, 6 path,
\* 7 userinfo, 8 fragment), or 0.
FirstViolatedRule(p) ==
  IF ~OnAllowList(Canonicalize(p.hostname)) THEN 3
  ELSE IF p.protocol /= Str_https_colon THEN 4
  ELSE IF p.port \notin { <<>>, Str_443 } THEN 5
  ELSE IF HasParentSegment(p.pathname) THEN 6
  ELSE IF p.username /= <<>> \/ p.password /= <<>> THEN 7
  ELSE IF p.hash /= <<>> THEN 8
  ELSE 0

\* What the claims say of each target the requests of the model carry,
\* computed once from the header text and the parser's output.
FactsOf(t, p) ==
  [ok            |-> p.ok,
   parsed        |-> p,
   rawHost       |-> RawHost(t),
   canonical     |-> IF p.ok THEN Canonicalize(p.hostname) ELSE <<>>,
   onAllowList   |-> p.ok /\ OnAllowList(Canonicalize(p.hostname)),
   rulesHold     |-> TargetRulesHold(p),
   parentSegment |-> p.ok /\ HasParentSegment(RawPath(t)),
   firstRule     |-> IF p.ok THEN FirstViolatedRule(p) ELSE 2]

TargetFacts ==
  [ t \in { req.headers["target-url"] : req \in Requests } \ { undefined } |->
      FactsOf(t, ParseURL(t)) ]

Facts(h) == TargetFacts[TargetOf(h)]

C2_PrivateAddressRejected ==
  \A r \in Invocations :
    (/\ handler[r].lookupOutcome = "fulfilled"
     /\ ~NoPrivateAddress(handler[r].addrs)) =>
      /\ SentOnce(handler[r], 403)
      /\ handler[r].pc = "done"
      /\ handler[r].requests = <<>>

\* A public address first and a private one after it: rejected with 403.
C2_Witness ==
  \E r \in Invocations :
    /\ handler[r].addrs = <<Addr_public4, Addr_private6>>
    /\ SentOnce(handler[r], 403)

\* A string of hexadecimal digits as a number.
RECURSIVE ParseHex(_)
ParseHex(s) ==
  IF s = <<>> THEN 0
  ELSE 16 * ParseHex(SubSeq(s, 1, Len(s) - 1)) + HexVal(s[Len(s)])

V4Octets(text) ==
  [ i \in 1..4 |-> ParseDec(Split(text, { "." })[i]) ]

\* The first 16 bits of an IPv6 address in text form.
V6FirstGroup(text) ==
  IF startsWith(text, <<":", ":">>) THEN 0
  ELSE ParseHex(Before(text, IndexOfAny(text, { ":" })))

\* The ranges that the specification lists as private or internal.
ListedPrivateV4(o) ==
  \/ o[1] = 127
  \/ (o[1] = 169 /\ o[2] = 254)
  \/ o[1] = 10
  \/ (o[1] = 172 /\ o[2] \in 16..31)
  \/ (o[1] = 192 /\ o[2] = 168)

ListedPrivateV6(text) ==
  \/ text = Str_v6_one
  \/ V6FirstGroup(text) \in 64512..65023      \* fc00::/7
  \/ V6FirstGroup(text) \in 65152..65215      \* fe80::/10

ListedPrivate(text) ==
  IF isIPv4(text) THEN ListedPrivateV4(V4Octets(text))
  ELSE isIPv6(text) /\ ListedPrivateV6(text)

\* C3: isPrivateAddress returns true exactly for the addresses in 127/8,
\* 169.254/16, 10/8, 172.16/12, 192.168/16, ::1, fc00::/7 and fe80::/10.
C3_ClassificationExact ==
  verdict /= "unset" => ((verdict = "private") <=> ListedPrivate(ip))

\* C4: a request whose Target-URL path has a parent-directory segment,
\* literally or percent-encoded, is rejected before any network operation:
\* neither dns.lookup nor axios.request is ever issued for it.
C4_TraversalRejectedBeforeNetwork ==
  \A r \in Invocations :
    (/\ Running(handler[r])
     /\ handler[r].req.method /= "OPTIONS"
     /\ Truthy(TargetOf(handler[r]))
     /\ Facts(handler[r]).parentSegment) =>
      /\ handler[r].lookups = <<>>
      /\ handler[r].requests = <<>>
      /\ handler[r].pc = "done"
      /\ (SentOnce(handler[r], 400) \/ SentOnce(handler[r], 403))

RuleMessage(rule) ==
  IF rule = 4 THEN "Only HTTPS protocol is allowed"
  ELSE IF rule = 5 THEN "Only default HTTPS port (443) is allowed"
  ELSE IF rule = 6 THEN "Path traversal is not allowed in the URL path"
  ELSE IF rule = 7 THEN "User information in URL is not allowed"
  ELSE "URL fragments are not allowed"

\* C5: a request with an allow-listed host that violates the scheme, port,
\* path, userinfo or fragment rule is answered with the 400 response of the
\* first rule it violates, whatever the resolver returns.
C5_FirstViolatedRuleAnswers ==
  \A r \in Invocations :
    (/\ handler[r].pc = "done"
     /\ handler[r].req.method /= "OPTIONS"
     /\ Truthy(TargetOf(handler[r]))
     /\ Facts(handler[r]).firstRule \in 4..8) =>
      SentError(handler[r], 400, RuleMessage(Facts(handler[r]).firstRule))

\* The ways the model writes an allow-listed hostname: case variants,
\* trailing dots, an IDN-equivalent form.
AllowedVariants ==
  { api_example_com \o Dots(n) : n \in 0..MaxDots }
    \cup { Host_upper, Host_fullwidth, service_example_net }

\* C6: the allow-list holds the canonical forms of the configured names; a
\* target whose hostname canonicalizes to one of them passes the allow-list
\* check (the lookup of the canonical name is issued), whichever variant the
\* caller wrote, and any other is answered 403 'Target hostname is not
\* allowed' and is neither resolved nor forwarded.
C6_AllowListOnCanonicalForms ==
  /\ allowed = [ i \in 1..Len(RAW_ALLOWED_HOSTNAMES) |->
                   Canonicalize(RAW_ALLOWED_HOSTNAMES[i]) ]
  /\ \A r \in Invocations :
       (/\ Running(handler[r])
        /\ handler[r].req.method /= "OPTIONS"
        /\ Truthy(TargetOf(handler[r]))
        /\ Facts(handler[r]).ok) =>
         /\ (Facts(handler[r]).rawHost \in AllowedVariants => Facts(handler[r]).onAllowList)
         /\ IF Facts(handler[r]).onAllowList
              THEN /\ handler[r].lookups =
                        << [hostname |-> Facts(handler[r]).canonical, all |-> TRUE] >>
                   /\ ~SentError(handler[r], 403, "Target hostname is not allowed")
              ELSE /\ SentError(handler[r], 403, "Target hostname is not allowed")
                   /\ handler[r].lookups = <<>>
                   /\ handler[r].requests = <<>>

\* A name written in the fullwidth form and one written with the longest run
\* of trailing dots have both passed the allow-list check.
C6_Witness ==
  \E r \in Invocations :
    /\ handler[r].lookups /= <<>>
    /\ Facts(handler[r]).rawHost \in { Host_fullwidth, api_example_com \o Dots(MaxDots) }
    /\ Facts(handler[r]).rawHost /= handler[r].hostname

\* C7: a request whose method is OPTIONS is answered with a success status
\* and an empty body and nothing else happens: the Target-URL header is not
\* read or parsed, no lookup is started, no outbound call is made.
C7_PreflightOnly ==
  \A r \in Invocations :
    (Running(handler[r]) /\ handler[r].req.method = "OPTIONS") =>
      /\ handler[r].pc = "done"
      /\ SentOnce(handler[r], 200)
      /\ handler[r].res.sent[1].body = NoBody
      /\ "target-url" \notin handler[r].read
      /\ "customheaders" \notin handler[r].read
      /\ handler[r].targetURL = undefined
      /\ handler[r].parsed = NoURL
      /\ handler[r].lookups = <<>>
      /\ handler[r].requests = <<>>

\* A pre-flight request that carries a target and custom headers has been answered.
C7_Witness ==
  \E r \in Invocations :
    /\ handler[r].req.method = "OPTIONS"
    /\ TargetOf(handler[r]) = Target_good
    /\ CustomOf(handler[r]) = Custom_valid
    /\ handler[r].pc = "done"

\* C8: every response sent carries Access-Control-Allow-Origin '*' and
\* Access-Control-Allow-Methods 'GET, PUT, PATCH, POST, DELETE', and carries
\* Access-Control-Allow-Headers exactly when the request had a non-empty
\* access-control-request-headers header, with that header's value.
C8_CorsHeadersOnEveryResponse ==
  \A r \in Invocations :
    \A k \in 1..Len(handler[r].res.sent) :
      /\ handler[r].res.sent[k].headers["Access-Control-Allow-Origin"] = Str_star
      /\ handler[r].res.sent[k].headers["Access-Control-Allow-Methods"] = Str_methods
      /\ handler[r].res.sent[k].headers["Access-Control-Allow-Headers"] =
           IF RequestedOf(handler[r]) \in { undefined, <<>> }
             THEN undefined
             ELSE RequestedOf(handler[r])

\* A rejection sent after the lookup, for a request that asked for headers.
C8_Witness ==
  \E r \in Invocations :
    /\ SentOnce(handler[r], 403)
    /\ handler[r].lookupOutcome = "fulfilled"
    /\ Truthy(RequestedOf(handler[r]))

\* C9: when the outbound call fails, the caller receives a 500 response
\* whose body carries a message string only, never the transport's error
\* object.
C9_TransportErrorSanitized ==
  \A r \in Invocations :
    handler[r].requestOutcome = "rejected" =>
      /\ SentOnce(handler[r], 500)
      /\ handler[r].res.sent[1].body.type = "json"
      /\ handler[r].res.sent[1].body.error.type = "string"

\* C10 as stated: a request whose CustomHeaders header is present and is not
\* JSON text never leads to an outbound call.
C10_PresentUnparsableNeverForwarded ==
  \A r \in Invocations :
    (CustomOf(handler[r]) /= undefined /\ ~JSONParse(CustomOf(handler[r])).ok) =>
      handler[r].requests = <<>>

\* C10: a request whose CustomHeaders is present with a non-empty value that
\* does not parse as JSON never leads to an outbound call, and when it passed
\* every earlier check it is answered 400 'Malformed CustomHeaders JSON'.
C10_MalformedCustomHeadersRejected ==
  \A r \in Invocations :
    (Truthy(CustomOf(handler[r])) /\ ~JSONParse(CustomOf(handler[r])).ok) =>
      /\ handler[r].requests = <<>>
      /\ (/\ handler[r].pc = "done"
          /\ handler[r].req.method /= "OPTIONS"
          /\ Truthy(TargetOf(handler[r]))
          /\ Facts(handler[r]).rulesHold
          /\ handler[r].lookupOutcome = "fulfilled"
          /\ NoPrivateAddress(handler[r].addrs)) =>
            SentError(handler[r], 400, "Malformed CustomHeaders JSON")

\* The malformed payload has been rejected after the lookup succeeded.
C10_Witness ==
  \E r \in Invocations :
    /\ CustomOf(handler[r]) = Custom_malformed
    /\ handler[r].lookupOutcome = "fulfilled"
    /\ SentError(handler[r], 400, "Malformed CustomHeaders JSON")

\* C11: when the dns.lookup promise rejects, the request is answered 500
\* 'DNS resolution failed' and no outbound call is made for it.
C11_LookupFailureRejected ==
  \A r \in Invocations :
    handler[r].lookupOutcome = "rejected" =>
      /\ handler[r].pc = "done"
      /\ SentError(handler[r], 500, "DNS resolution failed")
      /\ handler[r].requests = <<>>

\* The lookup has failed for a target that meets every rule.
C11_Witness ==
  \E r \in Invocations :
    /\ handler[r].lookupOutcome = "rejected"
    /\ TargetOf(handler[r]) = Target_good
    /\ SentOnce(handler[r], 500)

\* The header mapping the specification gives the outbound request.
ParsedCustomHeaders(custom) ==
  IF Truthy(custom) THEN JSONParse(custom).value ELSE EmptyObject

\* Two requests that may differ only in headers other than Target-URL and
\* CustomHeaders.
SameForwardedInputs(req1, req2) ==
  /\ req1.method = req2.method
  /\ req1.body = req2.body
  /\ req1.headers["target-url"] = req2.headers["target-url"]
  /\ req1.headers["customheaders"] = req2.headers["customheaders"]

\* C12: the headers of the outbound request are the mapping parsed from
\* CustomHeaders, or empty without it, and two requests that agree on method,
\* body, Target-URL and CustomHeaders issue identical outbound requests,
\* whatever their other headers.
C12_OutboundHeadersFromCustomHeadersOnly ==
  /\ \A r \in Invocations :
       \A k \in 1..Len(handler[r].requests) :
         handler[r].requests[k].headers = ParsedCustomHeaders(CustomOf(handler[r]))
  /\ \A r1, r2 \in Invocations :
       (/\ SameForwardedInputs(handler[r1].req, handler[r2].req)
        /\ handler[r1].requests /= <<>>
        /\ handler[r2].requests /= <<>>) =>
         handler[r1].requests = handler[r2].requests

\* Two requests with the same target and custom headers, one with a Cookie
\* and one without, have both been forwarded.
C12_Witness ==
  /\ handler["r1"].requests /= <<>>
  /\ handler["r2"].requests /= <<>>
  /\ SameForwardedInputs(handler["r1"].req, handler["r2"].req)
  /\ CustomOf(handler["r1"]) = Custom_valid
  /\ handler["r1"].req.headers["cookie"] /= handler["r2"].req.headers["cookie"]

\* Parsed URL q names the scheme, host, port, path and query of parsed URL p
\* and carries neither credentials nor a fragment.
SameResource(q, p) ==
  /\ q.ok
  /\ q.protocol = p.protocol
  /\ q.hostname = p.hostname
  /\ q.port = p.port
  /\ q.pathname = p.pathname
  /\ q.search = p.search
  /\ q.username = <<>>
  /\ q.password = <<>>
  /\ q.hash = <<>>

OutboundURLFromParsed(url, p) ==
  /\ url = p.origin \o p.pathname \o p.search
  /\ p.username = <<>>
  /\ p.password = <<>>
  /\ p.hash = <<>>
  /\ SameResource(ParseURL(url), p)

\* C13: the URL of every outbound request is origin + pathname + search of
\* the parsed target, names the same scheme, host, port, path and query as
\* the target, and has no userinfo and no fragment: a target that has one
\* is not forwarded.
C13_OutboundURLFromParsedComponents ==
  \A r \in Invocations :
    \A k \in 1..Len(handler[r].requests) :
      OutboundURLFromParsed(handler[r].requests[k].url, Facts(handler[r]).parsed)

\* A forwarded request whose header text differs from the URL sent: the
\* host was written in upper case and the target has a query.
C13_Witness ==
  \E r \in Invocations :
    /\ handler[r].requests /= <<>>
    /\ Facts(handler[r]).rawHost = Host_upper
    /\ Facts(handler[r]).parsed.search /= <<>>
    /\ handler[r].requests[1].url /= TargetOf(handler[r])

\* C14: over the lifetime of a request at most one outbound call and at most
\* one lookup are issued; neither a failed call nor a failed lookup is
\* retried.
C14_AtMostOneOutboundCall ==
  \A r \in Invocations :
    /\ Len(handler[r].requests) <= 1
    /\ Len(handler[r].lookups) <= 1
    /\ (handler[r].requestOutcome = "rejected" =>
          handler[r].pc = "done" /\ Len(handler[r].requests) = 1)
    /\ (handler[r].lookupOutcome = "rejected" =>
          handler[r].pc = "done" /\ Len(handler[r].lookups) = 1)

\* The one outbound call of a request has failed and has been answered.
C14_Witness ==
  \E r \in Invocations :
    /\ handler[r].requestOutcome = "rejected"
    /\ Len(handler[r].requests) = 1
    /\ handler[r].pc = "done"

\* The invocation of a request that is handled alone, after the transport
\* gave the outcome named.
AloneAfterRequest(h, requestOutcome, connected) ==
  IF h.pc /= "request" \/ requestOutcome = "none" THEN h
  ELSE IF requestOutcome = "fulfilled"
    THEN RequestThen([h EXCEPT !.connected = connected],
                     CHOOSE response \in Responses : TRUE)
  ELSE RequestCatch(h, TransportError(h.requests[Len(h.requests)]))

AloneLookupThen(after) ==
  IF after.pc = "thrown" THEN LookupCatch(after) ELSE after

AloneAfterLookup(h, lookupOutcome, addrs) ==
  IF h.pc /= "lookup" \/ lookupOutcome = "none" THEN h
  ELSE IF lookupOutcome = "fulfilled" THEN AloneLookupThen(LookupThen(h, addrs))
  ELSE LookupCatch([h EXCEPT !.lookupOutcome = "rejected"])

\* The state of the invocation of req when it is the only request the module
\* has ever handled and the resolver and the transport answer as named.
Alone(req, lookupOutcome, addrs, requestOutcome, connected) ==
  AloneAfterRequest(
    AloneAfterLookup(Handle(NewInvocation(req), ALLOWED_HOSTNAMES), lookupOutcome, addrs),
    requestOutcome, connected)

\* C15: ALLOWED_HOSTNAMES stays what it was at startup, and under every
\* interleaving of the callbacks of two requests in flight, the responses of
\* each request and the outbound request it issued are those of the same
\* request handled alone with the same DNS and transport answers.
C15_RequestsIndependent ==
  /\ allowed = ALLOWED_HOSTNAMES
  /\ \A r \in Invocations :
       handler[r].pc /= "received" =>
         handler[r] = Alone(handler[r].req, handler[r].lookupOutcome,
                            handler[r].addrs, handler[r].requestOutcome,
                            handler[r].connected)

\* Both requests are done, their callbacks interleaved: the one that started
\* first has been forwarded and the other rejected by the resolver's answer.
C15_Witness ==
  /\ handler["r1"].pc = "done"
  /\ handler["r2"].pc = "done"
  /\ handler["r1"].requestOutcome = "fulfilled"
  /\ handler["r2"].addrs = <<Addr_private4>>
  /\ TargetOf(handler["r1"]) = TargetOf(handler["r2"])

\* The host that parsed URL q names is a name, and none of the addresses.
NamesHostNotAddress(q, addrs) ==
  /\ q.ok
  /\ ~isIPv4(q.hostname)
  /\ ~startsWith(q.hostname, <<"[">>)
  /\ \A i \in 1..Len(addrs) : q.hostname /= addrs[i].address

\* C16: the handler hands the transport the host by name and none of the
\* addresses its own lookup returned, so the transport resolves on its own;
\* every connection belongs to a request whose lookup returned only
\* addresses classified public.  That the address connected to is among
\* those the lookup returned is no invariant: the state of C16_Witness is
\* reachable.
C16_GuardDoesNotBindTransport ==
  \A r \in Invocations :
    /\ \A k \in 1..Len(handler[r].requests) :
         /\ DOMAIN handler[r].requests[k] = { "method", "url", "data", "headers" }
         /\ NamesHostNotAddress(ParseURL(handler[r].requests[k].url), handler[r].addrs)
    /\ handler[r].connected /= NoAddress =>
         /\ handler[r].lookupOutcome = "fulfilled"
         /\ handler[r].addrs /= <<>>
         /\ NoPrivateAddress(handler[r].addrs)
         /\ handler[r].requests /= <<>>

\* The lookup of the handler returned public addresses only, the request was
\* forwarded, and the transport connected to a private address.
C16_Witness ==
  \E r \in Invocations :
    /\ handler[r].lookupOutcome = "fulfilled"
    /\ NoPrivateAddress(handler[r].addrs)
    /\ handler[r].requests /= <<>>
    /\ SentOnce(handler[r], 200)
    /\ isPrivateAddress(handler[r].connected.address)
    /\ \A i \in 1..Len(handler[r].addrs) : handler[r].addrs[i] /= handler[r].connected

\* The test of line 43 of the first revision.
FirstHostnameAllowed(p) ==
  \E i \in 1..Len(FirstAllowedHostnames) : FirstAllowedHostnames[i] = p.hostname

\* C17: in the first revision, a request whose Target-URL does not parse is
\* answered 400 'Invalid Target-URL format', one whose hostname is not on the
\* allow-list is answered 403 'Target hostname is not allowed', and no
\* outbound call is made for either.
C17_FirstHandlerRejectsOtherHosts ==
  \A r \in Invocations :
    (/\ Running(handler[r])
     /\ handler[r].req.method /= "OPTIONS"
     /\ Truthy(TargetOf(handler[r]))
     /\ (~Facts(handler[r]).ok \/ ~FirstHostnameAllowed(Facts(handler[r]).parsed))) =>
      /\ handler[r].requests = <<>>
      /\ IF Facts(handler[r]).ok
           THEN SentError(handler[r], 403, "Target hostname is not allowed")
           ELSE SentError(handler[r], 400, "Invalid Target-URL format")

\* An invocation has answered when it is done, and only then, and once.
AnsweredOnceWhenDone(h) ==
  /\ Len(h.res.sent) <= 1
  /\ (h.pc = "done" <=> Len(h.res.sent) = 1)
  /\ h.pc \in { "idle", "received", "lookup", "request", "done" }
  /\ \A k \in 1..Len(h.res.sent) : h.res.sent[k].status \in { 200, 400, 403, 500 }

\* C18: a request gets exactly one response: never two, and, when the
\* lookup and the outbound call each settle, never none; once the response
\* is sent nothing more happens for the request.
C18_ExactlyOneResponse ==
  /\ [](\A r \in Invocations : AnsweredOnceWhenDone(handler[r]))
  /\ [][\A r \in Invocations : handler[r].pc = "done" => handler'[r] = handler[r]]_vars
  /\ \A r \in Invocations :
       (handler[r].pc = "received") ~> (handler[r].pc = "done" /\ Len(handler[r].res.sent) = 1)

\* A request answered after both of its promises settled, the second by a
\* rejection.
C18_Witness ==
  \E r \in Invocations :
    /\ handler[r].pc = "done"
    /\ handler[r].lookupOutcome = "fulfilled"
    /\ handler[r].requestOutcome = "rejected"
    /\ Len(handler[r].res.sent) = 1

\* C19: the 500 'DNS resolution failed' response is sent only when the
\* dns.lookup promise rejected; a request whose lookup was fulfilled and whose
\* path holds a malformed escape is answered with a 400-class error.
C19_DnsFailureOnlyForDnsFailure ==
  \A r \in Invocations :
    /\ SentError(handler[r], 500, "DNS resolution failed") =>
         handler[r].lookupOutcome = "rejected"
    /\ (/\ handler[r].pc = "done"
        /\ handler[r].lookupOutcome = "fulfilled"
        /\ Facts(handler[r]).ok
        /\ ~decodeURIComponent(Facts(handler[r]).parsed.pathname).ok) =>
         \E k \in 1..Len(handler[r].res.sent) :
           handler[r].res.sent[k].status \in 400..499

\* The hostname that parsed URL q names.
HostnameOf(q) == IF q.ok THEN q.hostname ELSE <<>>

\* C20: the host named in the URL of every outbound request is the canonical
\* hostname that was compared with the allow-list and given to dns.lookup.
C20_OutboundHostIsCanonicalHostname ==
  \A r \in Invocations :
    \A k \in 1..Len(handler[r].requests) :
      /\ handler[r].lookups /= <<>>
      /\ HostnameOf(ParseURL(handler[r].requests[k].url)) = handler[r].lookups[1].hostname
      /\ HostnameOf(ParseURL(handler[r].requests[k].url)) = Facts(handler[r]).canonical

====
